---------------------------- MODULE Spec2Model ----------------------------
(***************************************************************************)
(* Model of autogen.py: the translator from a pycparser AST of a C header  *)
(* to quickjs-ffi wrapper source, and of the JavaScript helper             *)
(* _quickjs_ffi_wrap_ptr_func_decl that autogen.py emits in the prologue.  *)
(*                                                                         *)
(* Python values are records.  None is [kind |-> "None"]; an AST node is a *)
(* record whose kind is the c_ast class name; a descriptor (js_type) is a  *)
(* record whose kind is the 'kind' key of the dict, or "str" for a plain   *)
(* type-name string.  A translator function returns a result record:       *)
(*   [ok |-> TRUE,  t |-> js_type, l |-> js_line, env |-> registries]      *)
(*   [ok |-> FALSE, err |-> exception class,      env |-> registries]      *)
(* where env carries the module-level USER_DEFINED_* dicts, which the      *)
(* functions mutate as a side effect, also before an exception is raised.  *)
(***************************************************************************)
EXTENDS Integers, Sequences, FiniteSets, TLC

(***************************************************************************)
(* Bounds of the explored inputs.                                          *)
(***************************************************************************)
\* top-level declarations per file
MaxDecls == 2

\* enumerators per enum in the enum-folding inputs
MaxEnumerators == 3

\* largest integer literal used as an operand
MaxLit == 2

\* parameter types handed to the JavaScript helper
MaxTypes == 2

\* calls of a wrapper returned by the helper
MaxCalls == 2

(***************************************************************************)
(* c_ast nodes.                                                            *)
(***************************************************************************)
None == [kind |-> "None"]

Truthy(x) == x.kind # "None"

NoName == "<None>"

TruthyName(s) == s # NoName /\ s # ""

IdentifierType(names) == [kind |-> "IdentifierType", names |-> names]

TypeDecl(declname, type) == [kind |-> "TypeDecl", declname |-> declname, type |-> type]

PtrDecl(type) == [kind |-> "PtrDecl", type |-> type]

ArrayDecl(type) == [kind |-> "ArrayDecl", type |-> type]

\* args is None for `f()`, else a ParamList given by the sequence of its params
FuncDecl(args, type) == [kind |-> "FuncDecl", args |-> args, type |-> type]

ParamList(params) == [kind |-> "ParamList", params |-> params]

Typename(type) == [kind |-> "Typename", type |-> type]

Decl(name, type) == [kind |-> "Decl", name |-> name, type |-> type]

Typedef(name, type) == [kind |-> "Typedef", name |-> name, type |-> type]

Struct(name) == [kind |-> "Struct", name |-> name]

\* values is None for a reference `enum E`, else an EnumeratorList
Enum(name, values) == [kind |-> "Enum", name |-> name, values |-> values]

EnumeratorList(enumerators) == [kind |-> "EnumeratorList", enumerators |-> enumerators]

Enumerator(name, value) == [kind |-> "Enumerator", name |-> name, value |-> value]

\* FuncDef stands for a top-level node that is neither Typedef nor Decl
FuncDef == [kind |-> "FuncDef"]

(***************************************************************************)
(* Expressions.  A Constant carries the text of the literal as pycparser   *)
(* keeps it in Constant.value; the text is modelled by its form and the    *)
(* number it denotes in C:                                                 *)
(*   "dec"  5      "hex"  0x5      "oct"  05 (val > 0)                     *)
(*   "suffixed"  5u      "char"  a character constant with code val        *)
(***************************************************************************)
Constant(form, val) == [kind |-> "Constant", form |-> form, val |-> val]

BinaryOp(op, left, right) == [kind |-> "BinaryOp", op |-> op, left |-> left, right |-> right]

UnaryOp(op, expr) == [kind |-> "UnaryOp", op |-> op, expr |-> expr]

FuncCall == [kind |-> "FuncCall"]

ID(name) == [kind |-> "ID", name |-> name]

(***************************************************************************)
(* Python values produced by eval(): int, float (an exact fraction n/d),   *)
(* bool and str.                                                           *)
(***************************************************************************)
PyInt(n) == [tag |-> "int", n |-> n, d |-> 1]

PyBool(b) == [tag |-> "bool", n |-> IF b THEN 1 ELSE 0, d |-> 1]

PyStr(c) == [tag |-> "str", n |-> c, d |-> 1]

RECURSIVE Gcd(_, _)
Gcd(a, b) == IF b = 0 THEN a ELSE Gcd(b, a % b)

PyFloat(n, d) == [tag |-> "float", n |-> n \div Gcd(n, d), d |-> d \div Gcd(n, d)]

Raise(err) == [ok |-> FALSE, v |-> None, err |-> err]

Value(v) == [ok |-> TRUE, v |-> v, err |-> ""]

RECURSIVE Pow2(_)
Pow2(k) == IF k = 0 THEN 1 ELSE 2 * Pow2(k - 1)

RECURSIVE BitAnd(_, _)
BitAnd(a, b) ==
    IF a = 0 \/ b = 0 THEN 0
    ELSE (a % 2) * (b % 2) + 2 * BitAnd(a \div 2, b \div 2)

RECURSIVE BitOr(_, _)
BitOr(a, b) ==
    IF a = 0 THEN b
    ELSE IF b = 0 THEN a
    ELSE (IF a % 2 = 1 \/ b % 2 = 1 THEN 1 ELSE 0) + 2 * BitOr(a \div 2, b \div 2)

RECURSIVE BitXor(_, _)
BitXor(a, b) ==
    IF a = 0 THEN b
    ELSE IF b = 0 THEN a
    ELSE ((a + b) % 2) + 2 * BitXor(a \div 2, b \div 2)

\* whether the text of an integer or character literal is a Python expression
PyParses(c) == c.form \in {"dec", "hex", "char"}

\* eval(text of a Constant), line 326
PyEvalConstant(c) ==
    IF ~PyParses(c) THEN Raise("SyntaxError")
    ELSE IF c.form = "char" THEN Value(PyStr(c.val))
    ELSE Value(PyInt(c.val))

PyBinaryOps == {"+", "-", "*", "/", "%", "<<", ">>", "&", "|", "^",
                "<", ">", "<=", ">=", "==", "!="}

\* eval(f'{left.value} {op} {right.value}') for two integer literals, line 330
PyEvalBinary(op, left, right) ==
    IF ~PyParses(left) \/ ~PyParses(right) \/ op \notin PyBinaryOps
    THEN Raise("SyntaxError")
    ELSE LET a == left.val
             b == right.val
         IN  CASE op = "+"  -> Value(PyInt(a + b))
               [] op = "-"  -> Value(PyInt(a - b))
               [] op = "*"  -> Value(PyInt(a * b))
               [] op = "/"  -> IF b = 0 THEN Raise("ZeroDivisionError")
                               ELSE Value(PyFloat(a, b))
               [] op = "%"  -> IF b = 0 THEN Raise("ZeroDivisionError")
                               ELSE Value(PyInt(a % b))
               [] op = "<<" -> Value(PyInt(a * Pow2(b)))
               [] op = ">>" -> Value(PyInt(a \div Pow2(b)))
               [] op = "&"  -> Value(PyInt(BitAnd(a, b)))
               [] op = "|"  -> Value(PyInt(BitOr(a, b)))
               [] op = "^"  -> Value(PyInt(BitXor(a, b)))
               [] op = "<"  -> Value(PyBool(a < b))
               [] op = ">"  -> Value(PyBool(a > b))
               [] op = "<=" -> Value(PyBool(a <= b))
               [] op = ">=" -> Value(PyBool(a >= b))
               [] op = "==" -> Value(PyBool(a = b))
               [] op = "!=" -> Value(PyBool(a # b))

PyUnaryOps == {"-", "+", "~"}

\* eval(f'{op} {expr.value}') for an integer literal, line 332
PyEvalUnary(op, expr) ==
    IF ~PyParses(expr) \/ op \notin PyUnaryOps
    THEN Raise("SyntaxError")
    ELSE CASE op = "-" -> Value(PyInt(0 - expr.val))
           [] op = "+" -> Value(PyInt(expr.val))
           [] op = "~" -> Value(PyInt(0 - (expr.val + 1)))

\* a plausible slip: the previous value is reused
PyAddOne_reuse(v) ==
    CASE v.tag = "str" -> Raise("TypeError")
      [] OTHER         -> Value(v)

\* last_enum_field_value + 1, line 336
PyAddOne(v) ==
    CASE v.tag = "str"   -> Raise("TypeError")
      [] v.tag = "float" -> Value(PyFloat(v.n + v.d, v.d))
      [] OTHER           -> Value(PyInt(v.n + 1))


(***************************************************************************)
(* Descriptors (js_type) and json.dumps.                                   *)
(***************************************************************************)
js_str(name) == [kind |-> "str", name |-> name]

js_TypeDecl(name, type) == [kind |-> "TypeDecl", name |-> name, type |-> type]

js_PtrFuncDecl(name, type) == [kind |-> "PtrFuncDecl", name |-> name, type |-> type]

js_Struct(name) == [kind |-> "Struct", name |-> name, fields |-> << >>]

js_Enum(name, items) == [kind |-> "Enum", name |-> name, items |-> items]

js_FuncDecl(name, return_type, params_types) ==
    [kind |-> "FuncDecl", name |-> name, return_type |-> return_type,
     params_types |-> params_types]

js_Typedef(name, type) == [kind |-> "Typedef", name |-> name, type |-> type]

\* JSON text, kept as its syntax tree
JsonNull == [j |-> "null"]

JsonString(s) == [j |-> "string", s |-> s]

\* the string holding the one character with code c
JsonChar(c) == [j |-> "string", c |-> c]

JsonInt(n) == [j |-> "int", n |-> n]

JsonFloat(n, d) == [j |-> "float", n |-> n, d |-> d]

JsonBool(b) == [j |-> IF b THEN "true" ELSE "false"]

JsonObject(members) == [j |-> "object", members |-> members]

JsonArray(elems) == [j |-> "array", elems |-> elems]

Member(key, val) == [key |-> key, val |-> val]

dumps_name(s) == IF s = NoName THEN JsonNull ELSE JsonString(s)

dumps_value(v) ==
    CASE v.tag = "int"   -> JsonInt(v.n)
      [] v.tag = "float" -> JsonFloat(v.n, v.d)
      [] v.tag = "bool"  -> JsonBool(v.n = 1)
      [] v.tag = "str"   -> JsonChar(v.n)

\* dumps of an enum's items dict: one member per key, in insertion order
dumps_items(items) ==
    JsonObject([i \in 1..Len(items) |->
                  Member(items[i].name, dumps_value(items[i].value))])

RECURSIVE dumps(_)
dumps(t) ==
    CASE t.kind = "None"        -> JsonNull
      [] t.kind = "str"         -> JsonString(t.name)
      [] t.kind = "Struct"      ->
            JsonObject(<<Member("kind", JsonString("Struct")),
                         Member("name", dumps_name(t.name)),
                         Member("fields", JsonObject(<< >>))>>)
      [] t.kind = "Enum"        ->
            JsonObject(<<Member("kind", JsonString("Enum")),
                         Member("name", dumps_name(t.name)),
                         Member("items", dumps_items(t.items))>>)
      [] t.kind = "FuncDecl"    ->
            JsonObject(<<Member("kind", JsonString("FuncDecl")),
                         Member("name", dumps_name(t.name)),
                         Member("return_type", dumps(t.return_type)),
                         Member("params_types",
                                JsonArray([i \in 1..Len(t.params_types) |->
                                             dumps(t.params_types[i])]))>>)
      [] OTHER                  ->   \* TypeDecl, PtrFuncDecl, Typedef
            JsonObject(<<Member("kind", JsonString(t.kind)),
                         Member("name", dumps_name(t.name)),
                         Member("type", dumps(t.type))>>)

dumps_list(ts) == JsonArray([i \in 1..Len(ts) |-> dumps(ts[i])])

(***************************************************************************)
(* Lines of generated source.  A line is the f-string that built it (fmt)  *)
(* with the values substituted for its placeholders: name for a name       *)
(* placeholder, repr for a value formatted with str(), json for a value    *)
(* formatted with dumps().                                                 *)
(***************************************************************************)
Line(fmt, name, repr, json) == [fmt |-> fmt, name |-> name, repr |-> repr, json |-> json]

UnsetLine == Line("/* unset */", "", None, JsonNull)

(***************************************************************************)
(* The registries USER_DEFINED_*: each a dict from a name to a descriptor. *)
(* An environment holds the nine dicts plus log, the sequence of the       *)
(* assignments USER_DEFINED_X[name] = js_type executed so far.             *)
(***************************************************************************)
Partitions == {"USER_DEFINED_TYPE_DECL", "USER_DEFINED_FUNC_DECL",
               "USER_DEFINED_PTR_FUNC_DECL", "USER_DEFINED_STRUCT_DECL",
               "USER_DEFINED_ARRAY_DECL", "USER_DEFINED_ENUM_DECL",
               "USER_DEFINED_TYPEDEF_STRUCT", "USER_DEFINED_TYPEDEF_FUNC_DECL",
               "USER_DEFINED_TYPEDEF_PTR_DECL"}

EmptyDict == << >>

EmptyEnv == [dicts |-> [p \in Partitions |-> EmptyDict], log |-> << >>]

\* a plausible slip: the first entry under a key is kept
SetItem_keep_first(d, key, val) ==
    [k \in (DOMAIN d) \cup {key} |-> IF k \in DOMAIN d THEN d[k] ELSE val]

\* d[key] = val on a Python dict
SetItem(d, key, val) ==
    [k \in (DOMAIN d) \cup {key} |-> IF k = key THEN val ELSE d[k]]

\* USER_DEFINED_X[name] = js_type
Register(env, partition, name, js_type) ==
    [dicts |-> [env.dicts EXCEPT ![partition] = SetItem(@, name, js_type)],
     log   |-> Append(env.log, [partition |-> partition, name |-> name,
                                js_type |-> js_type])]

Ok(t, l, env) == [ok |-> TRUE, t |-> t, l |-> l, env |-> env, err |-> ""]

Fail(err, env) == [ok |-> FALSE, t |-> None, l |-> UnsetLine, env |-> env, err |-> err]

RECURSIVE Join(_)
Join(names) ==
    IF Len(names) = 0 THEN ""
    ELSE IF Len(names) = 1 THEN names[1]
    ELSE names[1] \o " " \o Join(Tail(names))

get_leaf_name(n) == Join(n.names)

get_typename(n, func_decl, env) == Ok(None, UnsetLine, env)


(***************************************************************************)
(* The translators.  Each takes the registries as its last argument.       *)
(***************************************************************************)
RECURSIVE get_node(_, _, _, _)
RECURSIVE get_decl(_, _, _)
RECURSIVE get_type_decl(_, _, _, _, _)
RECURSIVE get_ptr_decl(_, _, _, _)
RECURSIVE get_func_decl(_, _, _, _)

\* the struct's name: its tag, else the declarator's name, else the typedef's
struct_name(n, typedef, type_decl) ==
    IF TruthyName(n.name) THEN n.name
    ELSE IF Truthy(type_decl) /\ TruthyName(type_decl.declname) THEN type_decl.declname
    ELSE IF Truthy(typedef) /\ TruthyName(typedef.name) THEN typedef.name
    ELSE NoName

\* lines 290-302, once the name is known
struct_named(js_type, env) ==
    Ok(js_type,
       Line("struct: {}", "", None, dumps(js_type)),
       Register(env, "USER_DEFINED_STRUCT_DECL", js_type.name, js_type))

get_struct(n, typedef, type_decl, env) ==
    IF struct_name(n, typedef, type_decl) = NoName THEN Fail("ValueError", env)
    ELSE struct_named(js_Struct(struct_name(n, typedef, type_decl)), env)

\* js_type['items'][enum_field_name] = enum_field_value
SetEnumItem(items, name, value) ==
    IF \E i \in 1..Len(items) : items[i].name = name
    THEN [i \in 1..Len(items) |->
            IF items[i].name = name THEN [name |-> name, value |-> value]
            ELSE items[i]]
    ELSE Append(items, [name |-> name, value |-> value])

\* the value of one enumerator, lines 324-336
enum_field_value(m, last_enum_field_value) ==
    IF Truthy(m.value)
    THEN CASE m.value.kind = "Constant" -> PyEvalConstant(m.value)
           [] m.value.kind = "BinaryOp" ->
                IF m.value.left.kind # "Constant" \/ m.value.right.kind # "Constant"
                THEN Raise("AttributeError")
                ELSE PyEvalBinary(m.value.op, m.value.left, m.value.right)
           [] m.value.kind = "UnaryOp"  ->
                IF m.value.expr.kind # "Constant"
                THEN Raise("AttributeError")
                ELSE PyEvalUnary(m.value.op, m.value.expr)
           [] OTHER -> Raise("TypeError")
    ELSE PyAddOne(last_enum_field_value)

\* the loop over n.values.enumerators from the i-th enumerator on, lines
\* 320-339; enum_item is the loop body after the value r of enumerator i
RECURSIVE enum_items(_, _, _, _)
enum_item(enumerators, i, items, r) ==
    IF ~r.ok THEN [ok |-> FALSE, items |-> items, err |-> r.err]
    ELSE enum_items(enumerators, i + 1, r.v, SetEnumItem(items, enumerators[i].name, r.v))

enum_items(enumerators, i, last_enum_field_value, items) ==
    IF i > Len(enumerators) THEN [ok |-> TRUE, items |-> items, err |-> ""]
    ELSE enum_item(enumerators, i, items,
                   enum_field_value(enumerators[i], last_enum_field_value))

\* lines 341-342
enum_registered(js_type, env) ==
    Ok(js_type,
       Line("enum: {}", "", None, dumps(js_type)),
       Register(env, "USER_DEFINED_ENUM_DECL", js_type.name, js_type))

\* get_enum after the loop has given the items r
enum_looped(n, r, env) ==
    IF ~r.ok THEN Fail(r.err, env)
    ELSE enum_registered(js_Enum(n.name, r.items), env)

get_enum(n, decl, type_decl, env) ==
    IF Truthy(decl) \/ Truthy(type_decl)
    THEN IF n.values.kind # "EnumeratorList" THEN Fail("AssertionError", env)
         ELSE enum_looped(n, enum_items(n.values.enumerators, 1, PyInt(0 - 1), << >>), env)
    ELSE Fail("TypeError", env)

\* lines 208-211 and 245-248: a typedef'd struct, js_name = typedef.name
type_decl_struct_named(js_name, js_type, env) ==
    Ok(js_type,
       Line("type_decl struct: {}", "", None, dumps(js_type)),
       IF TruthyName(js_name)
       THEN Register(Register(env, "USER_DEFINED_TYPEDEF_STRUCT", js_name, js_type),
                     "USER_DEFINED_TYPE_DECL", js_name, js_type)
       ELSE env)

\* lines 202-211 after get_struct has returned r
type_decl_struct(typedef, r) ==
    IF ~r.ok THEN r
    ELSE type_decl_struct_named(typedef.name, js_TypeDecl(typedef.name, r.t), r.env)

\* lines 225-226 and 245-248: an enum variable, js_name = n.declname
type_decl_enum_named(js_name, js_type, env) ==
    Ok(js_type,
       Line("export const {} = {};", js_name, None, dumps_items(js_type.type.items)),
       IF TruthyName(js_name)
       THEN Register(Register(env, "USER_DEFINED_TYPE_DECL", js_name, js_type),
                     "USER_DEFINED_TYPE_DECL", js_name, js_type)
       ELSE Register(env, "USER_DEFINED_TYPE_DECL", js_name, js_type))

\* lines 217-226 after get_enum has returned r
type_decl_enum(n, r) ==
    IF ~r.ok THEN r
    ELSE type_decl_enum_named(n.declname, js_TypeDecl(n.declname, r.t), r.env)

\* lines 230-236 and 245 after get_ptr_decl has returned r: decl.name needs a
\* decl, and js_name is never bound on this path, so line 245 raises
type_decl_ptr(decl, r) ==
    IF ~r.ok THEN r
    ELSE IF ~Truthy(decl) THEN Fail("AttributeError", r.env)
    ELSE Fail("UnboundLocalError", r.env)

get_type_decl(n, typedef, decl, func_decl, env) ==
    IF Truthy(typedef)
    THEN IF n.type.kind = "Struct"
         THEN type_decl_struct(typedef, get_struct(n.type, typedef, n, env))
         ELSE Fail("TypeError", env)
    ELSE IF Truthy(decl) \/ Truthy(func_decl)
    THEN CASE n.type.kind = "Enum" ->
                type_decl_enum(n, get_enum(n.type, None, n, env))
           [] n.type.kind = "PtrDecl" ->
                type_decl_ptr(decl, get_ptr_decl(n.type, decl, func_decl, env))
           [] n.type.kind = "IdentifierType" ->
                \* js_type = name; js_name is never bound on this path, so
                \* line 245 raises
                Fail("UnboundLocalError", env)
           [] OTHER -> Fail("TypeError", env)
    ELSE Fail("TypeError", env)

\* lines 258-262 after get_node has returned r
ptr_decl_typed(decl, r) ==
    IF ~r.ok THEN r
    ELSE Ok(js_PtrFuncDecl(decl.name, r.t), UnsetLine, r.env)

get_ptr_decl(n, decl, func_decl, env) ==
    IF Truthy(decl) /\ Truthy(func_decl)
    THEN ptr_decl_typed(decl, get_node(n.type, decl, func_decl, env))
    ELSE IF Truthy(decl) THEN Ok(None, UnsetLine, env)
    ELSE IF Truthy(func_decl) THEN Ok(None, UnsetLine, env)
    ELSE Fail("TypeError", env)

\* the loop over n.args.params from the i-th parameter on, lines 369-371;
\* func_param is the loop body after get_node has returned r for parameter i
RECURSIVE func_params(_, _, _, _)
func_param(n, i, params_types, r) ==
    IF ~r.ok THEN r
    ELSE func_params(n, i + 1, Append(params_types, r.t), r.env)

func_params(n, i, params_types, env) ==
    IF i > Len(n.args.params) THEN Ok(params_types, UnsetLine, env)
    ELSE func_param(n, i, params_types, get_node(n.args.params[i], None, n, env))

\* lines 373-374
func_decl_registered(js_type, env) ==
    Ok(js_type,
       Line("/* {}: {} = {} */", js_type.name, js_type.return_type,
            dumps_list(js_type.params_types)),
       Register(env, "USER_DEFINED_FUNC_DECL", js_type.name, js_type))

\* lines 369-374 after the parameter loop has returned ps
func_decl_params(decl, return_type, ps) ==
    IF ~ps.ok THEN ps
    ELSE func_decl_registered(js_FuncDecl(decl.name, return_type, ps.t), ps.env)

\* lines 366-374 after get_node has returned rt for the return type
func_decl_return(n, decl, rt) ==
    IF ~rt.ok THEN rt
    ELSE func_decl_params(decl, rt.t, func_params(n, 1, << >>, rt.env))

get_func_decl(n, typedef, decl, env) ==
    IF Truthy(typedef) THEN Fail("TypeError", env)
    ELSE IF Truthy(decl)
    THEN IF n.args.kind # "ParamList" THEN Fail("AssertionError", env)
         ELSE func_decl_return(n, decl, get_node(n.type, decl, n, env))
    ELSE Fail("TypeError", env)

\* lines 411-418
typedef_described(js_type, env) ==
    Ok(js_type, Line("typedef: {}", "", None, dumps(js_type)), env)

\* lines 411-418 after the inner type has given r
typedef_typed(n, r) ==
    IF ~r.ok THEN r
    ELSE typedef_described(js_Typedef(n.name, r.t), r.env)

get_typedef(n, env) ==
    typedef_typed(n,
        CASE n.type.kind = "TypeDecl" -> get_type_decl(n.type, n, None, None, env)
          [] n.type.kind = "FuncDecl" -> get_func_decl(n.type, n, None, env)
          [] n.type.kind = "PtrDecl"  -> Fail("TypeError", env)
          [] OTHER                    -> Fail("TypeError", env))

get_decl(n, func_decl, env) ==
    CASE n.type.kind = "Enum"     -> get_enum(n.type, n, None, env)
      [] n.type.kind = "TypeDecl" -> get_type_decl(n.type, None, n, None, env)
      [] n.type.kind = "FuncDecl" -> get_func_decl(n.type, None, n, env)
      [] n.type.kind = "PtrDecl"  -> get_ptr_decl(n.type, n, None, env)
      [] OTHER                    -> Fail("TypeError", env)

get_node(n, decl, func_decl, env) ==
    IF Truthy(decl)
    THEN CASE n.kind = "TypeDecl" -> get_type_decl(n, None, decl, func_decl, env)
           [] n.kind = "PtrDecl"  -> get_ptr_decl(n, decl, func_decl, env)
           [] OTHER               -> Fail("TypeError", env)
    ELSE IF Truthy(func_decl)
    THEN CASE n.kind = "Decl"     -> get_decl(n, func_decl, env)
           [] n.kind = "TypeDecl" -> get_type_decl(n, None, None, func_decl, env)
           [] n.kind = "PtrDecl"  -> get_ptr_decl(n, decl, func_decl, env)
           [] n.kind = "Typename" -> get_typename(n, func_decl, env)
           [] OTHER               -> Fail("TypeError", env)
    ELSE Fail("TypeError", env)

(***************************************************************************)
(* get_file_ast and the prologue.  The text '\n'.join(js_lines) is kept as *)
(* the sequence of its lines; the empty string is the empty sequence.      *)
(***************************************************************************)
SHARED_LIBRARY == "./libcfltk.so"

Prologue(shared_library) ==
    <<Line("import { CFunction, CCallback } from './quickjs-ffi.js';", "", None, JsonNull),
      Line("const LIB = {};", "", None, JsonString(shared_library)),
      Line("_QUICKJS_FFI_WRAP_PTR_FUNC_DECL", "", None, JsonNull)>>

EmptyText == << >>

\* the dispatch on one top-level node, lines 481-487
top_level(n, env) ==
    CASE n.kind = "Typedef" -> get_typedef(n, env)
      [] n.kind = "Decl"    -> get_decl(n, None, env)
      [] OTHER              -> Fail("AttributeError", env)

\* the loop over file_ast.ext from the i-th node on, lines 478-489
\* file_line is the loop body after the dispatch has returned r for node i
RECURSIVE file_lines(_, _, _, _)
file_line(ext, i, js_lines, r) ==
    IF ~r.ok THEN [ok |-> FALSE, text |-> js_lines, env |-> r.env, err |-> r.err]
    ELSE file_lines(ext, i + 1, Append(js_lines, r.l), r.env)

file_lines(ext, i, js_lines, env) ==
    IF i > Len(ext) THEN [ok |-> TRUE, text |-> js_lines, env |-> env, err |-> ""]
    ELSE file_line(ext, i, js_lines, top_level(ext[i], env))

get_file_ast(ext, shared_library, env) ==
    file_lines(ext, 1, Prologue(shared_library), env)

\* a plausible slip: the lines gathered before the failure are written
output_data_partial(r) == r.text

\* output_data after the try/except of lines 526-530
output_data(r) == IF r.ok THEN r.text ELSE EmptyText

(***************************************************************************)
(* The generated JavaScript helper, lines 13-69.  A type handed to the     *)
(* helper is a string, an object of kind PtrFuncDecl, an object of another *)
(* kind, or null.                                                          *)
(***************************************************************************)
JsTypes == {"string", "PtrFuncDecl", "Struct", "null"}

\* whether types.map(...) of lines 16-28 and 39-54 maps this type or throws
JsTypeMaps(type) == type \in {"string", "PtrFuncDecl"}

\* __quickjs_ffi_wrap_ptr_func_decl: the function returned and the c_func it
\* closes over; bindable tells whether `new CFunction` finds the symbol
inner_wrap(types, bindable) ==
    IF \E i \in 1..Len(types) : ~JsTypeMaps(types[i])
    THEN [threw |-> TRUE, result |-> "undefined", c_func |-> "undefined"]
    ELSE [threw  |-> FALSE,
          result |-> "js_func",
          c_func |-> IF bindable THEN "CFunction" ELSE "undefined"]

\* the try/catch of lines 63-67 around the call that gave r
caught(r) ==
    IF r.threw THEN [result |-> "undefined", c_func |-> "undefined"]
    ELSE [result |-> r.result, c_func |-> r.c_func]

\* _quickjs_ffi_wrap_ptr_func_decl
outer_wrap(types, bindable) == caught(inner_wrap(types, bindable))

\* a call js_func(...js_args); callbacks tells whether `new CCallback` succeeds
js_func(types, c_func, callbacks) ==
    IF \E i \in 2..Len(types) : types[i] = "PtrFuncDecl" /\ ~callbacks
    THEN [outcome |-> "raised", value |-> "Error"]
    ELSE IF c_func = "undefined"
    THEN [outcome |-> "raised", value |-> "TypeError"]
    ELSE [outcome |-> "returned", value |-> "invoke"]

(***************************************************************************)
(* State.                                                                  *)
(***************************************************************************)
VARIABLES
    file_ast,        \* file_ast.ext, the top-level nodes of the parsed header
    pc,              \* "start" before parse_and_convert, "done" after it
    output_file,     \* the text written to output_path
    error,           \* the exception caught at line 528, "" if none
    USER_DEFINED,    \* the nine USER_DEFINED_* dicts
    log,             \* the registrations executed, in order
    types,           \* ...types of the helper call being modelled
    bindable,        \* whether the native symbol can be bound
    wrapper,         \* what _quickjs_ffi_wrap_ptr_func_decl returned, "unset" before
    c_func,          \* the c_func closed over by the returned js_func
    calls,           \* number of calls of the wrapper made
    outcome          \* result of the last call of the wrapper

translator_vars == <<file_ast, pc, output_file, error, USER_DEFINED, log>>

helper_vars == <<types, bindable, wrapper, c_func, calls, outcome>>

vars == <<file_ast, pc, output_file, error, USER_DEFINED, log,
          types, bindable, wrapper, c_func, calls, outcome>>

NoOutcome == [outcome |-> "none", value |-> ""]

TranslatorIdle ==
    /\ pc = "start"
    /\ output_file = EmptyText
    /\ error = ""
    /\ USER_DEFINED = EmptyEnv.dicts
    /\ log = EmptyEnv.log

HelperIdle ==
    /\ types = << >>
    /\ bindable = TRUE
    /\ wrapper = "unset"
    /\ c_func = "undefined"
    /\ calls = 0
    /\ outcome = NoOutcome

\* lines 528-536, after get_file_ast has returned or raised with r
Written(r) ==
    /\ output_file' = output_data(r)
    /\ error' = r.err
    /\ USER_DEFINED' = r.env.dicts
    /\ log' = r.env.log

\* parse_and_convert, lines 525-536
ParseAndConvert ==
    /\ pc = "start"
    /\ Written(get_file_ast(file_ast, SHARED_LIBRARY, [dicts |-> USER_DEFINED, log |-> log]))
    /\ pc' = "done"
    /\ UNCHANGED <<file_ast, helper_vars>>

\* evaluation of `_quickjs_ffi_wrap_ptr_func_decl(lib, name, nargs, ...types)`
Wrap ==
    /\ wrapper = "unset"
    /\ Len(types) > 0
    /\ wrapper' = outer_wrap(types, bindable).result
    /\ c_func' = outer_wrap(types, bindable).c_func
    /\ UNCHANGED <<translator_vars, types, bindable, calls, outcome>>

\* a call of the returned wrapper
Call ==
    /\ wrapper = "js_func"
    /\ calls < MaxCalls
    /\ \E callbacks \in BOOLEAN :
          outcome' = js_func(types, c_func, callbacks)
    /\ calls' = calls + 1
    /\ UNCHANGED <<translator_vars, types, bindable, wrapper, c_func>>


(***************************************************************************)
(* Inputs: the headers explored.                                           *)
(***************************************************************************)
IntType == IdentifierType(<<"int">>)

UnsignedIntType == IdentifierType(<<"unsigned", "int">>)

EnumNames == <<"A", "B", "C", "D", "E", "F">>

\* the enumerator list whose i-th enumerator has value vs[i]
Enumerators(vs) ==
    EnumeratorList([i \in 1..Len(vs) |-> Enumerator(EnumNames[i], vs[i])])

Lit(v) == Constant("dec", v)

\* { A, B = 5, C },  { A = 2 },  { A, B = f() }
FileEnumBodies ==
    {Enumerators(<<None, Lit(5), None>>),
     Enumerators(<<Lit(2)>>),
     Enumerators(<<None, FuncCall>>)}

\* enum E { ... };   enum { ... };   enum E { ... } x;
EnumDecls ==
    {Decl(NoName, Enum(tag, b)) : tag \in {"E", NoName}, b \in FileEnumBodies}
    \cup {Decl("x", TypeDecl("x", Enum("E", b))) : b \in FileEnumBodies}

\* void (*cb)(int)
CallbackParam ==
    Decl("cb", PtrDecl(FuncDecl(ParamList(<<Typename(TypeDecl(NoName, IntType))>>),
                                TypeDecl("cb", IdentifierType(<<"void">>)))))

\* int a,  int b,  void (*cb)(int)
Params ==
    {Decl("a", TypeDecl("a", IntType)),
     Decl("b", TypeDecl("b", IntType)),
     CallbackParam}

\* parameters per function declaration
MaxParams == 2

\* parameter lists with distinct parameter names, and the list (int)
ParamLists ==
    {ps \in UNION {[1..k -> Params] : k \in 0..MaxParams} :
        \A i, j \in 1..Len(ps) : i # j => ps[i] # ps[j]}
    \cup {<<Typename(TypeDecl(NoName, UnsignedIntType))>>}

\* int,  enum E { A }
ReturnTypes == {IntType, Enum("E", Enumerators(<<None>>))}

\* T add(params);   T add();   T *add(params)
FuncDecls ==
    {Decl("add", FuncDecl(ParamList(ps), TypeDecl("add", rt))) :
        ps \in ParamLists, rt \in ReturnTypes}
    \cup {Decl("add", FuncDecl(None, TypeDecl("add", IntType)))}
    \cup {Decl("add", FuncDecl(ParamList(<<>>), PtrDecl(TypeDecl("add", rt)))) :
            rt \in ReturnTypes}

\* int *p;   int x;   struct S { ... };   struct S s;   int arr[];
VarDecls ==
    {Decl("p", PtrDecl(TypeDecl("p", IntType))),
     Decl("x", TypeDecl("x", IntType)),
     Decl(NoName, Struct("S")),
     Decl("s", TypeDecl("s", Struct("S"))),
     Decl("arr", ArrayDecl(TypeDecl("arr", IntType)))}

\* typedef struct S T;  typedef struct {} T;
\* typedef int fn_t(int);  typedef int *P;  typedef int I;
Typedefs ==
    {Typedef("T", TypeDecl("T", Struct("S"))),
     Typedef("T", TypeDecl("T", Struct(NoName))),
     Typedef("fn_t", FuncDecl(ParamList(<<Typename(TypeDecl(NoName, IntType))>>),
                              TypeDecl("fn_t", IntType))),
     Typedef("P", PtrDecl(TypeDecl("P", IntType))),
     Typedef("I", TypeDecl("I", IntType))}

TopLevelNodes == EnumDecls \cup FuncDecls \cup VarDecls \cup Typedefs \cup {FuncDef}

(***************************************************************************)
(* Inputs of the enum-folding specification: one enum whose enumerators    *)
(* are implicit or small literals, except for at most one, which has any   *)
(* of the value expressions of ValueExprs.                                 *)
(***************************************************************************)
IntLits == {Lit(v) : v \in 0..MaxLit}

SimpleValues == {None} \cup IntLits

COperators == PyBinaryOps \cup {"&&", "||"}

CUnaryOperators == PyUnaryOps \cup {"!"}

ValueExprs ==
    {Lit(5), Constant("hex", MaxLit), Constant("oct", MaxLit), Constant("suffixed", MaxLit),
     Constant("char", 97), FuncCall, ID("A")}
    \cup {BinaryOp(op, l, r) : op \in COperators, l \in IntLits, r \in IntLits}
    \cup {BinaryOp("+", ID("A"), Lit(1)), BinaryOp("+", Lit(1), Constant("oct", MaxLit))}
    \cup {UnaryOp(op, e) : op \in CUnaryOperators, e \in IntLits}
    \cup {UnaryOp("-", ID("A")), UnaryOp("-", Constant("suffixed", MaxLit))}

\* `enum E { ... };` or `enum E { ... } x;` with the enumerator values vs
EnumFile(form, vs) ==
    IF form = "tag" THEN <<Decl(NoName, Enum("E", Enumerators(vs)))>>
    ELSE <<Decl("x", TypeDecl("x", Enum("E", Enumerators(vs))))>>

(***************************************************************************)
(* Inputs of the helper specification.                                     *)
(***************************************************************************)
TypeLists == UNION {[1..k -> JsTypes] : k \in 1..(MaxTypes + 1)}

(***************************************************************************)
(* Specifications.                                                         *)
(***************************************************************************)
Init ==
    /\ \E k \in 0..MaxDecls : file_ast \in [1..k -> TopLevelNodes]
    /\ TranslatorIdle
    /\ HelperIdle

Next == ParseAndConvert

Spec == Init /\ [][Next]_vars

InitEnum ==
    /\ \E n \in 1..MaxEnumerators, form \in {"tag", "var"} :
          \E vs \in [1..n -> SimpleValues] :
             \/ file_ast = EnumFile(form, vs)
             \/ \E k \in 1..n, e \in ValueExprs :
                   file_ast = EnumFile(form, [vs EXCEPT ![k] = e])
    /\ TranslatorIdle
    /\ HelperIdle

SpecEnum == InitEnum /\ [][Next]_vars

InitWrap ==
    /\ file_ast = << >>
    /\ TranslatorIdle
    /\ types \in TypeLists
    /\ bindable \in BOOLEAN
    /\ wrapper = "unset"
    /\ c_func = "undefined"
    /\ calls = 0
    /\ outcome = NoOutcome

NextWrap == Wrap \/ Call

SpecWrap == InitWrap /\ [][NextWrap]_vars


(***************************************************************************)
(* Properties.                                                             *)
(***************************************************************************)
Done == pc = "done"

FUNC_DECL == USER_DEFINED["USER_DEFINED_FUNC_DECL"]

ENUM_DECL == USER_DEFINED["USER_DEFINED_ENUM_DECL"]

\* the line emitted for the i-th top-level node
LineOf(i) == output_file[Len(Prologue(SHARED_LIBRARY)) + i]

IsPrimitiveTypeDecl(n) == n.kind = "TypeDecl" /\ n.type.kind = "IdentifierType"

\* a function declaration whose return type and parameters are primitive
IsPrimitiveFunc(n) ==
    /\ n.kind = "Decl"
    /\ n.type.kind = "FuncDecl"
    /\ IsPrimitiveTypeDecl(n.type.type)
    /\ n.type.args.kind = "ParamList"
    /\ \A i \in 1..Len(n.type.args.params) :
          /\ n.type.args.params[i].kind = "Decl"
          /\ IsPrimitiveTypeDecl(n.type.args.params[i].type)

\* the descriptor the specification gives for a primitive function declaration
ExpectedFuncDecl(n) ==
    js_FuncDecl(n.name,
                js_str(get_leaf_name(n.type.type.type)),
                [i \in 1..Len(n.type.args.params) |->
                    js_str(get_leaf_name(n.type.args.params[i].type.type))])

\* C1: a file that consists of one function declaration with primitive return
\* and parameter types translates without error, and the function registry
\* holds under its name the FuncDecl descriptor with the return type's name
\* and the parameter types' names in source order.
C1_PrimitiveFuncTranslates ==
    (Done /\ Len(file_ast) = 1 /\ IsPrimitiveFunc(file_ast[1]))
    => /\ error = ""
       /\ file_ast[1].name \in DOMAIN FUNC_DECL
       /\ FUNC_DECL[file_ast[1].name] = ExpectedFuncDecl(file_ast[1])

\* the enumerators of the enum declared by a node `enum E {..};` or `enum E {..} x;`
EnumOf(n) == IF n.type.kind = "Enum" THEN n.type ELSE n.type.type

IsEnumDecl(n) ==
    /\ n.kind = "Decl"
    /\ \/ n.type.kind = "Enum"
       \/ n.type.kind = "TypeDecl" /\ n.type.type.kind = "Enum"
    /\ EnumOf(n).values.kind = "EnumeratorList"

IsIntegerLiteral(e) ==
    e.kind = "Constant" /\ e.form \in {"dec", "hex", "oct", "suffixed"}

\* v is the number u + 1
IsSuccessor(u, v) ==
    /\ u.tag # "str" /\ v.tag # "str"
    /\ v.n * u.d = (u.n + u.d) * v.d

\* C2: when the file's enum translates, its items list the enumerators in
\* source order; an enumerator with no explicit value has the value 0 if it
\* is the first and the previous enumerator's value plus one otherwise; an
\* enumerator with an explicit integer literal has that literal's value.
C2_EnumValues ==
    (Done /\ error = "" /\ Len(file_ast) = 1 /\ IsEnumDecl(file_ast[1]))
    => LET e == EnumOf(file_ast[1])
           es == e.values.enumerators
           items == ENUM_DECL[e.name].items
       IN  /\ Len(items) = Len(es)
           /\ \A i \in 1..Len(es) :
                /\ items[i].name = es[i].name
                /\ ~Truthy(es[i].value) =>
                      IF i = 1 THEN items[i].value = PyInt(0)
                      ELSE IsSuccessor(items[i - 1].value, items[i].value)
                /\ IsIntegerLiteral(es[i].value) =>
                      items[i].value = PyInt(es[i].value.val)

\* enum { A, B = 5, C } has been translated to {A: 0, B: 5, C: 6}
C2_Witness ==
    /\ Done /\ error = ""
    /\ file_ast = <<Decl(NoName, Enum("E", Enumerators(<<None, Lit(5), None>>)))>>
    /\ ENUM_DECL["E"].items = <<[name |-> "A", value |-> PyInt(0)],
                                [name |-> "B", value |-> PyInt(5)],
                                [name |-> "C", value |-> PyInt(6)]>>

\* a declaration of a pointer variable: `int *p;`
IsBarePointerDecl(n) ==
    n.kind = "Decl" /\ n.type.kind = "PtrDecl" /\ n.type.type.kind = "TypeDecl"

\* C3: a file that contains a top-level bare pointer variable declaration
\* fails to translate: an error is raised and no output line is written.
C3_BarePointerFails ==
    (Done /\ \E i \in 1..Len(file_ast) : IsBarePointerDecl(file_ast[i]))
    => error # "" /\ output_file = EmptyText

\* whether the translation of a top-level node on its own raises
Fails(n) == ~top_level(n, EmptyEnv).ok

\* C4: if the translation of any top-level declaration of the file fails,
\* the text written to the output file is empty, wherever the failing
\* declaration stands in the file.
C4_AllOrNothing ==
    (Done /\ \E i \in 1..Len(file_ast) : Fails(file_ast[i]))
    => output_file = EmptyText

\* an enum with a function-call initializer stands after a declaration that
\* was translated and registered, and nothing was written
C4_Witness ==
    /\ Done
    /\ Len(file_ast) = 2
    /\ ~Fails(file_ast[1])
    /\ file_ast[2] = Decl(NoName, Enum("E", Enumerators(<<None, FuncCall>>)))
    /\ log # << >>
    /\ error = "TypeError"
    /\ output_file = EmptyText


\* C5: when binding the native symbol failed, every call of the wrapper the
\* helper returned returns a value; none raises.
C5_UnboundWrapperNeverRaises ==
    (wrapper = "js_func" /\ ~bindable /\ calls > 0)
    => outcome.outcome = "returned"

\* the indices of the registrations made under a name in a partition
Registrations(p, name) ==
    {i \in 1..Len(log) : log[i].partition = p /\ log[i].name = name}

Last(S) == CHOOSE i \in S : \A j \in S : j <= i

\* C6: each partition holds exactly the names registered in it, each mapped
\* to the descriptor of the last registration under that name; and a file
\* whose declarations each translate on their own translates without error,
\* also when two of them register the same name.
C6_LastWriteWins ==
    /\ \A p \in Partitions :
          /\ DOMAIN USER_DEFINED[p] =
                {log[i].name : i \in {j \in 1..Len(log) : log[j].partition = p}}
          /\ \A name \in DOMAIN USER_DEFINED[p] :
                USER_DEFINED[p][name] = log[Last(Registrations(p, name))].js_type
    /\ (Done /\ \A i \in 1..Len(file_ast) : ~Fails(file_ast[i])) => error = ""

\* two declarations registered different descriptors under one name in one
\* partition, without error, and the partition holds the second
C6_Witness ==
    /\ Done /\ error = ""
    /\ \E i, j \in 1..Len(log) :
          /\ i < j
          /\ log[i].partition = log[j].partition
          /\ log[i].name = log[j].name
          /\ log[i].js_type # log[j].js_type
          /\ j = Last(Registrations(log[j].partition, log[j].name))
          /\ USER_DEFINED[log[j].partition][log[j].name] = log[j].js_type

\* C7: in a file that translates, the line emitted for every top-level enum
\* declaration is the export statement built from the enum's items.
C7_EnumLineIsExport ==
    (Done /\ error = "")
    => \A i \in 1..Len(file_ast) :
          IsEnumDecl(file_ast[i])
          => /\ LineOf(i).fmt = "export const {} = {};"
             /\ LineOf(i).json =
                   dumps_items(top_level(file_ast[i], EmptyEnv).env.dicts
                                  ["USER_DEFINED_ENUM_DECL"][EnumOf(file_ast[i]).name].items)

IsFuncTypedef(n) == n.kind = "Typedef" /\ n.type.kind = "FuncDecl"

\* C8: a file whose first declaration is a typedef of a function declaration
\* does not fail on it: a file that consists of that typedef translates, and
\* its line is the dump of a Typedef descriptor that wraps a FuncDecl.
C8_FuncTypedefSupported ==
    (Done /\ Len(file_ast) = 1 /\ IsFuncTypedef(file_ast[1]))
    => /\ error = ""
       /\ Len(output_file) = Len(Prologue(SHARED_LIBRARY)) + 1
       /\ LineOf(1).fmt = "typedef: {}"

IsFuncDeclNode(n) ==
    n.kind = "Decl" /\ n.type.kind = "FuncDecl" /\ n.type.args.kind = "ParamList"

IsPointerParam(m) == m.kind = "Decl" /\ m.type.kind = "PtrDecl"

\* C9: in a file that consists of one function declaration and translates,
\* every pointer parameter of the function appears in the registered
\* descriptor's params_types as a PtrFuncDecl descriptor.
C9_PointerParamIsPtrFuncDecl ==
    (Done /\ error = "" /\ Len(file_ast) = 1 /\ IsFuncDeclNode(file_ast[1]))
    => LET n == file_ast[1]
           params_types == FUNC_DECL[n.name].params_types
       IN  \A i \in 1..Len(n.type.args.params) :
              IsPointerParam(n.type.args.params[i])
              => params_types[i].kind = "PtrFuncDecl"

\* the value of the C expression `a op b` on two non-negative int operands;
\* b is not 0 for "/" and "%"
CBinary(op, a, b) ==
    CASE op = "+"  -> a + b
      [] op = "-"  -> a - b
      [] op = "*"  -> a * b
      [] op = "/"  -> a \div b
      [] op = "%"  -> a % b
      [] op = "<<" -> a * Pow2(b)
      [] op = ">>" -> a \div Pow2(b)
      [] op = "&"  -> BitAnd(a, b)
      [] op = "|"  -> BitOr(a, b)
      [] op = "^"  -> BitXor(a, b)
      [] op = "<"  -> IF a < b THEN 1 ELSE 0
      [] op = ">"  -> IF a > b THEN 1 ELSE 0
      [] op = "<=" -> IF a <= b THEN 1 ELSE 0
      [] op = ">=" -> IF a >= b THEN 1 ELSE 0
      [] op = "==" -> IF a = b THEN 1 ELSE 0
      [] op = "!=" -> IF a # b THEN 1 ELSE 0
      [] op = "&&" -> IF a # 0 /\ b # 0 THEN 1 ELSE 0
      [] op = "||" -> IF a # 0 \/ b # 0 THEN 1 ELSE 0

\* the value of the C expression `op a` on a non-negative int operand
CUnary(op, a) ==
    CASE op = "-" -> 0 - a
      [] op = "+" -> a
      [] op = "~" -> 0 - (a + 1)
      [] op = "!" -> IF a = 0 THEN 1 ELSE 0

IsDecLit(e) == e.kind = "Constant" /\ e.form = "dec"

\* a binary or unary expression on decimal literals that C defines
IsFoldable(e) ==
    \/ /\ e.kind = "BinaryOp"
       /\ e.op \in COperators
       /\ IsDecLit(e.left) /\ IsDecLit(e.right)
       /\ e.op \in {"/", "%"} => e.right.val # 0
    \/ /\ e.kind = "UnaryOp"
       /\ e.op \in CUnaryOperators
       /\ IsDecLit(e.expr)

CValue(e) ==
    IF e.kind = "BinaryOp" THEN CBinary(e.op, e.left.val, e.right.val)
    ELSE CUnary(e.op, e.expr.val)

\* v is a number equal to the integer k
IsInteger(v, k) == v.tag # "str" /\ v.n = k * v.d

\* C10: when an enum translates, the value of every enumerator that is a
\* foldable expression equals the integer C gives the expression, and an
\* implicit enumerator right after it has that integer plus one.
C10_ExactIntegerFolding ==
    (Done /\ error = "" /\ Len(file_ast) = 1 /\ IsEnumDecl(file_ast[1]))
    => LET e == EnumOf(file_ast[1])
           es == e.values.enumerators
           items == ENUM_DECL[e.name].items
       IN  \A i \in 1..Len(es) :
              IsFoldable(es[i].value)
              => /\ IsInteger(items[i].value, CValue(es[i].value))
                 /\ (i < Len(es) /\ ~Truthy(es[i + 1].value))
                    => IsInteger(items[i + 1].value, CValue(es[i].value) + 1)

=============================================================================
